---- MODULE Spec2Model ----
(***************************************************************************)
(* Naive Bayes ham/spam detector: preprocessing.py (text normalisation and *)
(* corpus counting) and detector.py (SpamDetector, estimate_probabilities, *)
(* classify_message).                                                      *)
(*                                                                         *)
(* Representation.  A Python str is a sequence of one-character strings.   *)
(* A dict is a set of <<key, value>> pairs with distinct keys.  None is    *)
(* <<>> and a stored value x is <<x>>.  A number that the code computes    *)
(* with "/" is an exact rational <<num, den>> in lowest terms, den > 0:    *)
(* the model follows the arithmetic of the formulas and abstracts from     *)
(* IEEE-754 rounding.  The outcome of a call is a record                   *)
(* [kind |-> "return", val |-> v] or [kind |-> "raise", exc |-> name].     *)
(***************************************************************************)
EXTENDS Integers, Sequences, FiniteSets, TLC

VARIABLES alpha, _word_counts, n_train_messages, n_ham, n_spam, _prob_info,
          call, ret

vars == <<alpha, _word_counts, n_train_messages, n_ham, n_spam, _prob_info,
          call, ret>>

detector == <<alpha, _word_counts, n_train_messages, n_ham, n_spam, _prob_info>>

\* ------------------------------------------------------------------ bounds

MaxCorpus == 2

MaxMsgLen == 3

MaxLineLen == 4

MaxBatch == 1

\* ----------------------------------------------------------- Python values

None == <<>>

Some(x) == <<x>>

Return(v) == [kind |-> "return", val |-> v]

Raise(e) == [kind |-> "raise", exc |-> e]

Range(s) == {s[i] : i \in 1..Len(s)}

\* dict helpers: d is a set of <<key, value>> pairs
Keys(d) == {e[1] : e \in d}

Get(d, k, default) == IF k \in Keys(d) THEN (CHOOSE e \in d : e[1] = k)[2] ELSE default

\* ---------------------------------------------------------------- numbers

RECURSIVE Gcd(_, _)
Gcd(a, b) == IF b = 0 THEN a ELSE Gcd(b, a % b)

Abs(x) == IF x < 0 THEN -x ELSE x

\* the rational n/d (d # 0) in lowest terms with a positive denominator
Rat(n, d) ==
  LET g == Gcd(Abs(n), Abs(d))
      s == IF d < 0 THEN -1 ELSE 1
  IN  <<(s * n) \div g, (s * d) \div g>>

RInt(n) == <<n, 1>>

RAdd(x, y) == Rat(x[1] * y[2] + y[1] * x[2], x[2] * y[2])

RMul(x, y) == Rat(x[1] * y[1], x[2] * y[2])

RIsZero(x) == x[1] = 0

\* x / y for y # 0; the callers test RIsZero(y) first, as Python raises there
RDiv(x, y) == Rat(x[1] * y[2], x[2] * y[1])

RGt(x, y) == x[1] * y[2] > y[1] * x[2]

Zero == RInt(0)

One == RInt(1)

Half == Rat(1, 2)

\* ------------------------------------------------------- preprocessing.py

LowerCase == {"a", "b", "c", "d", "e", "h", "i", "l", "m", "n", "o", "p", "r", "w", "y"}

UpperCase == {"A", "B"}

WhiteSpace == {" ", "\t", "\n"}

\* str.isalpha on one character
isalpha(c) == c \in LowerCase \cup UpperCase

\* str.lower on one character
lower_char(c) == CASE c = "A" -> "a" [] c = "B" -> "b" [] OTHER -> c

\* str.lower
lower(w) == [i \in 1..Len(w) |-> lower_char(w[i])]

\* str.split(): the maximal runs of non-whitespace characters, in order
RECURSIVE split_from(_, _, _, _)
split_from(s, i, cur, acc) ==
  IF i > Len(s)
  THEN IF cur = <<>> THEN acc ELSE Append(acc, cur)
  ELSE IF s[i] \in WhiteSpace
       THEN split_from(s, i + 1, <<>>, IF cur = <<>> THEN acc ELSE Append(acc, cur))
       ELSE split_from(s, i + 1, Append(cur, s[i]), acc)

split(s) == split_from(s, 1, <<>>, <<>>)

\* str.index("\t"): the first position of a tab, 0 when there is none (ValueError)
index_tab(line) ==
  IF \E i \in 1..Len(line) : line[i] = "\t"
  THEN CHOOSE i \in 1..Len(line) : line[i] = "\t" /\ \A j \in 1..(i - 1) : line[j] # "\t"
  ELSE 0

\* str.replace("\t", new) where new is a str
RECURSIVE replace_tab(_, _)
replace_tab(s, new) ==
  IF s = <<>> THEN <<>>
  ELSE (IF Head(s) = "\t" THEN new ELSE <<Head(s)>>) \o replace_tab(Tail(s), new)

split_line(line) ==
  LET tab_index == index_tab(line)
      ann == SubSeq(line, 1, tab_index - 1)
      msg == SubSeq(line, tab_index + 1, Len(line))
  IN  IF tab_index = 0 THEN Raise("ValueError")
      ELSE Return(<<ann, replace_tab(msg, <<>>)>>)

\* mutant: every message that is not spam counts as ham
count_ham_and_spam_else_ham(ann_msg_list) ==
  <<Len(SelectSeq(ann_msg_list, LAMBDA am : am[1] # "spam")),
    Len(SelectSeq(ann_msg_list, LAMBDA am : am[1] = "spam"))>>

count_ham_and_spam(ann_msg_list) ==
  <<Len(SelectSeq(ann_msg_list, LAMBDA am : am[1] = "ham")),
    Len(SelectSeq(ann_msg_list, LAMBDA am : am[1] = "spam"))>>

clean_msg(msg) == [i \in 1..Len(msg) |-> IF isalpha(msg[i]) THEN msg[i] ELSE " "]

split_words(msg) == {lower(w) : w \in Range(split(msg))}

\* Counter(a_set): every element once
CounterOfSet(words) == {<<w, 1>> : w \in words}

\* Counter.__add__: the sums, keeping the positive ones
CounterAdd(a, b) ==
  LET sum(w) == Get(a, w, 0) + Get(b, w, 0)
  IN  {<<w, sum(w)>> : w \in {k \in Keys(a) \cup Keys(b) : sum(k) > 0}}

RECURSIVE count_words_from(_, _, _)
count_words_from(msg_list, i, word_dict) ==
  IF i > Len(msg_list) THEN word_dict
  ELSE LET words == split_words(clean_msg(msg_list[i]))
       IN  count_words_from(msg_list, i + 1, CounterAdd(word_dict, CounterOfSet(words)))

\* mutant: the words of a message are counted with their frequency, the
\* Counter being built from the list of words instead of the set
RECURSIVE count_word_frequency_from(_, _, _)
count_word_frequency_from(msg_list, i, word_dict) ==
  IF i > Len(msg_list) THEN word_dict
  ELSE LET ws == split(clean_msg(msg_list[i]))
           words == [j \in 1..Len(ws) |-> lower(ws[j])]
           counter == {<<w, Cardinality({j \in 1..Len(words) : words[j] = w})>> :
                         w \in Range(words)}
       IN  count_word_frequency_from(msg_list, i + 1, CounterAdd(word_dict, counter))

count_words_frequency(msg_list) == count_word_frequency_from(msg_list, 1, {})

count_words(msg_list) == count_words_from(msg_list, 1, {})

\* [m for a, m in ann_msg_list if a == label]
messages_of(ann_msg_list, label) ==
  LET kept == SelectSeq(ann_msg_list, LAMBDA am : am[1] = label)
  IN  [i \in 1..Len(kept) |-> kept[i][2]]

count_words_in_ham_and_spam(ann_msg_list) ==
  LET ham_word_count == count_words(messages_of(ann_msg_list, "ham"))
      spam_word_count == count_words(messages_of(ann_msg_list, "spam"))
      all_words == Keys(ham_word_count) \cup Keys(spam_word_count)
  IN  {<<w, <<Get(ham_word_count, w, 0), Get(spam_word_count, w, 0)>>>> : w \in all_words}

\* ------------------------------------------------------------ detector.py

\* mutant: the word probabilities are divided by n_tot, not by the class count
estimate_probabilities_by_total(word_counts, n_classes, a) ==
  LET n_tot == RAdd(RInt(n_classes[1] + n_classes[2]), RMul(RInt(2), a))
      nh == IF RGt(a, Zero) THEN RAdd(RInt(n_classes[1]), a) ELSE RInt(n_classes[1])
      ns == IF RGt(a, Zero) THEN RAdd(RInt(n_classes[2]), a) ELSE RInt(n_classes[2])
  IN  IF RIsZero(n_tot) THEN Raise("ZeroDivisionError")
      ELSE Return(<<{<<e[1], <<RDiv(RAdd(RInt(e[2][1]), a), n_tot),
                               RDiv(RAdd(RInt(e[2][2]), a), n_tot)>>>> : e \in word_counts},
                    <<RDiv(nh, n_tot), RDiv(ns, n_tot)>>>>)

\* estimate_probabilities(word_counts, n_classes, alpha): a is a rational
estimate_probabilities(word_counts, n_classes, a) ==
  LET n_tot == RAdd(RInt(n_classes[1] + n_classes[2]), RMul(RInt(2), a))
      nh == IF RGt(a, Zero) THEN RAdd(RInt(n_classes[1]), a) ELSE RInt(n_classes[1])
      ns == IF RGt(a, Zero) THEN RAdd(RInt(n_classes[2]), a) ELSE RInt(n_classes[2])
  IN  IF RIsZero(n_tot) THEN Raise("ZeroDivisionError")
      ELSE IF word_counts # {} /\ (RIsZero(nh) \/ RIsZero(ns))
           THEN Raise("ZeroDivisionError")
           ELSE Return(<<{<<e[1], <<RDiv(RAdd(RInt(e[2][1]), a), nh),
                                    RDiv(RAdd(RInt(e[2][2]), a), ns)>>>> : e \in word_counts},
                         <<RDiv(nh, n_tot), RDiv(ns, n_tot)>>>>)

\* mutant: a word that is not in the model counts as probability 0
RECURSIVE word_product_zero_default(_, _, _)
word_product_zero_default(msg_words, p_word_class, acc) ==
  IF msg_words = {} THEN acc
  ELSE LET word == CHOOSE w \in msg_words : TRUE
           p == Get(p_word_class, word, <<Zero, Zero>>)
       IN  word_product_zero_default(msg_words \ {word}, p_word_class,
                                     <<RMul(acc[1], p[1]), RMul(acc[2], p[2])>>)

\* the products p_msg_ham, p_msg_spam of the loop over msg_words
RECURSIVE word_product(_, _, _)
word_product(msg_words, p_word_class, acc) ==
  IF msg_words = {} THEN acc
  ELSE LET word == CHOOSE w \in msg_words : TRUE
           p == Get(p_word_class, word, <<One, One>>)
       IN  word_product(msg_words \ {word}, p_word_class,
                        <<RMul(acc[1], p[1]), RMul(acc[2], p[2])>>)

\* mutant: the joint probabilities are returned without the division by their sum
classify_message_unnormalised(message, prob_info) ==
  LET msg_words == split_words(clean_msg(message))
      p_msg == word_product(msg_words, prob_info[1], <<One, One>>)
  IN  Return(<<RMul(p_msg[1], prob_info[2][1]), RMul(p_msg[2], prob_info[2][2])>>)

classify_message(message, prob_info) ==
  LET p_word_class == prob_info[1]
      p_class == prob_info[2]
      msg_words == split_words(clean_msg(message))
      p_msg == word_product(msg_words, p_word_class, <<One, One>>)
      p_msg_ham_p_ham == RMul(p_msg[1], p_class[1])
      p_msg_spam_p_spam == RMul(p_msg[2], p_class[2])
      p_msg_tot == RAdd(p_msg_ham_p_ham, p_msg_spam_p_spam)
  IN  IF RIsZero(p_msg_tot) THEN Raise("ZeroDivisionError")
      ELSE Return(<<RDiv(p_msg_ham_p_ham, p_msg_tot), RDiv(p_msg_spam_p_spam, p_msg_tot)>>)

\* names bound at module level in detector.py: the import and the class.
\* estimate_probabilities and classify_message are bound in the body of class
\* SpamDetector, a scope the bodies of its methods do not see.
ModuleGlobals == {"pp", "SpamDetector"}

\* the lookup of a bare name used in a method body
ResolvesGlobal(name) == name \in ModuleGlobals

\* list(zip(classes, messages))
zip(classes, messages) ==
  LET n == IF Len(classes) < Len(messages) THEN Len(classes) ELSE Len(messages)
  IN  [i \in 1..n |-> <<classes[i], messages[i]>>]

\* the call of classify_message from a method: the name is looked up first,
\* then the body unpacks prob_info
call_classify_message(msg, stored_prob_info) ==
  IF ~ResolvesGlobal("classify_message") THEN Raise("NameError")
  ELSE IF stored_prob_info = None THEN Raise("TypeError")
  ELSE classify_message(msg, stored_prob_info[1])

\* [classify_message(msg, self._prob_info) for msg in messages], from index i
RECURSIVE classify_all(_, _, _, _)
classify_all(msgs, i, stored_prob_info, acc) ==
  IF i > Len(msgs) THEN Return(acc)
  ELSE LET r == call_classify_message(msgs[i], stored_prob_info)
       IN  IF r.kind = "raise" THEN r
           ELSE classify_all(msgs, i + 1, stored_prob_info, Append(acc, r.val))

\* SpamDetector.predict_proba; messages is [kind |-> "str" or "seq", val |-> ...]
predict_proba(messages) ==
  IF messages.kind = "str"
  THEN call_classify_message(messages.val, _prob_info)
  ELSE classify_all(messages.val, 1, _prob_info, <<>>)

label_of(p) == IF RGt(p[1], Half) THEN "ham" ELSE "spam"

\* SpamDetector.predict
predict(messages) ==
  LET probs == predict_proba(messages)
  IN  IF probs.kind = "raise" THEN probs
      ELSE IF messages.kind = "str" THEN Return(label_of(probs.val))
      ELSE Return([i \in 1..Len(probs.val) |-> label_of(probs.val[i])])

\* mutant: alpha is never added to the counts of the word
word_proba_unsmoothed(counts, a) ==
  LET n_w_tot == RInt(counts[1] + counts[2])
  IN  IF RIsZero(n_w_tot) THEN Raise("ZeroDivisionError")
      ELSE Return(<<RDiv(RInt(counts[1]), n_w_tot), RDiv(RInt(counts[2]), n_w_tot)>>)

\* the pair computed for one word of _word_counts in predict_word_proba
word_proba(counts, a) ==
  LET n_w_ham == IF RGt(a, Zero) THEN RAdd(RInt(counts[1]), a) ELSE RInt(counts[1])
      n_w_spam == IF RGt(a, Zero) THEN RAdd(RInt(counts[2]), a) ELSE RInt(counts[2])
      n_w_tot == RAdd(n_w_ham, n_w_spam)
  IN  IF RIsZero(n_w_tot) THEN Raise("ZeroDivisionError")
      ELSE Return(<<RDiv(n_w_ham, n_w_tot), RDiv(n_w_spam, n_w_tot)>>)

\* SpamDetector.predict_word_proba
predict_word_proba(message) ==
  LET words == split_words(clean_msg(message))
  IN  IF words = {} THEN Return({})
      ELSE IF _word_counts = None THEN Raise("TypeError")
      ELSE LET known == words \cap Keys(_word_counts[1])
               p(w) == word_proba(Get(_word_counts[1], w, <<0, 0>>), alpha)
           IN  IF \E w \in known : p(w).kind = "raise" THEN Raise("ZeroDivisionError")
               ELSE Return({<<w, p(w).val>> : w \in known})

\* ------------------------------------------------------------------ inputs

Labels == {"ham", "spam", "unknown"}

TrainMessages == {<<>>, <<"a">>, <<"b">>, <<"A", " ", "a">>, <<"a", "1", "b">>}

Hello == <<"h", "e", "l", "l", "o">>

ScenarioMessages ==
  << <<"h", "e", "l", "l", "o", " ", "w", "o", "r", "l", "d">>,
     <<"w", "i", "n", " ", "m", "o", "n", "e", "y", " ", "n", "o", "w">>,
     <<"w", "o", "r", "l", "d", " ", "p", "e", "a", "c", "e">> >>

ScenarioClasses == <<"ham", "spam", "ham">>

SeqsUpTo(S, n) == UNION {[1..k -> S] : k \in 0..n}

Corpora == SeqsUpTo(Labels \X TrainMessages, MaxCorpus)

CorpusInputs == Corpora \cup {zip(ScenarioClasses, ScenarioMessages)}

classes_of(c) == [i \in 1..Len(c) |-> c[i][1]]

texts_of(c) == [i \in 1..Len(c) |-> c[i][2]]

Alphas == {Zero, Half, One}

PredictMessages == TrainMessages \cup {<<>>, <<"c">>, <<"a", " ", "c">>, Hello}

PredictInputs ==
  {[kind |-> "str", val |-> m] : m \in PredictMessages}
    \cup {[kind |-> "seq", val |-> b] : b \in SeqsUpTo(PredictMessages, MaxBatch)}

\* ------------------------------------------------- the detector (an object)

NoCall == [op |-> "none"]

NoRet == [kind |-> "none"]

\* SpamDetector(alpha)
Init ==
  /\ alpha \in Alphas
  /\ _word_counts = None
  /\ n_train_messages = None
  /\ n_ham = None
  /\ n_spam = None
  /\ _prob_info = None
  /\ call = NoCall
  /\ ret = NoRet

\* SpamDetector.fit(messages, classes)
Fit(messages, classes) ==
  LET ann_msg == zip(classes, messages)
      wc == count_words_in_ham_and_spam(ann_msg)
      nc == count_ham_and_spam(ann_msg)
      est == IF ResolvesGlobal("estimate_probabilities")
             THEN estimate_probabilities(wc, nc, alpha)
             ELSE Raise("NameError")
  IN  /\ call.op = "none"
      /\ call' = [op |-> "fit", messages |-> messages, classes |-> classes]
      /\ n_train_messages' = Some(Len(ann_msg))
      /\ _word_counts' = Some(wc)
      /\ n_ham' = Some(nc[1])
      /\ n_spam' = Some(nc[2])
      /\ _prob_info' = IF est.kind = "return" THEN Some(est.val) ELSE _prob_info
      /\ ret' = IF est.kind = "return" THEN Return("self") ELSE est
      /\ UNCHANGED alpha

PredictProba(messages) ==
  /\ call.op = "none"
  /\ call' = [op |-> "predict_proba", messages |-> messages]
  /\ ret' = predict_proba(messages)
  /\ UNCHANGED detector

Predict(messages) ==
  /\ call.op = "none"
  /\ call' = [op |-> "predict", messages |-> messages]
  /\ ret' = predict(messages)
  /\ UNCHANGED detector

PredictWordProba(message) ==
  /\ call.op = "none"
  /\ call' = [op |-> "predict_word_proba", message |-> message]
  /\ ret' = predict_word_proba(message)
  /\ UNCHANGED detector

\* the caller takes the outcome of the call; the detector is called again
Resume ==
  /\ call.op \in {"fit", "predict_proba", "predict", "predict_word_proba"}
  /\ call' = NoCall
  /\ ret' = NoRet
  /\ UNCHANGED detector

Next ==
  \/ \E c \in CorpusInputs : Fit(texts_of(c), classes_of(c))
  \/ \E m \in PredictInputs : PredictProba(m)
  \/ \E m \in PredictInputs : Predict(m)
  \/ \E m \in PredictMessages : PredictWordProba(m)
  \/ Resume

Spec == Init /\ [][Next]_vars

\* ------------------------------------------- the functions, called directly

LineAlphabet == {"a", "b", "\t"}

Lines == SeqsUpTo(LineAlphabet, MaxLineLen)

MsgAlphabet == {"a", "B", "c", "1"}

Messages == SeqsUpTo(MsgAlphabet, MaxMsgLen) \cup {Hello}

ClassCounts == (0..MaxCorpus) \X (0..MaxCorpus)

WordCountInputs == {count_words_in_ham_and_spam(c) : c \in CorpusInputs}

\* the ProbabilityModels of every corpus and alpha whose estimation returns
TrainedModels ==
  LET est(ca) == estimate_probabilities(count_words_in_ham_and_spam(ca[1]),
                                        count_ham_and_spam(ca[1]), ca[2])
  IN  {est(ca).val : ca \in {x \in CorpusInputs \X Alphas : est(x).kind = "return"}}

\* one call of one function, its arguments drawn from the input sets
FnInit ==
  /\ alpha = One
  /\ _word_counts = None
  /\ n_train_messages = None
  /\ n_ham = None
  /\ n_spam = None
  /\ _prob_info = None
  /\ ret = NoRet
  /\ \/ call \in {[op |-> "split_line", line |-> l] : l \in Lines}
     \/ call \in {[op |-> "count_ham_and_spam", ann_msg_list |-> c] : c \in CorpusInputs}
     \/ call \in {[op |-> "count_words_in_ham_and_spam", ann_msg_list |-> c] :
                    c \in CorpusInputs}
     \/ call \in {[op |-> "estimate_probabilities", word_counts |-> w, n_classes |-> n,
                   alpha |-> a] : w \in WordCountInputs, n \in ClassCounts, a \in Alphas}
     \/ call \in {[op |-> "classify_message", message |-> m, prob_info |-> pm] :
                    m \in Messages, pm \in TrainedModels}

SplitLineCall ==
  /\ call.op = "split_line" /\ ret.kind = "none"
  /\ ret' = split_line(call.line)
  /\ UNCHANGED <<call, detector>>

CountHamAndSpamCall ==
  /\ call.op = "count_ham_and_spam" /\ ret.kind = "none"
  /\ ret' = Return(count_ham_and_spam(call.ann_msg_list))
  /\ UNCHANGED <<call, detector>>

CountWordsInHamAndSpamCall ==
  /\ call.op = "count_words_in_ham_and_spam" /\ ret.kind = "none"
  /\ ret' = Return(count_words_in_ham_and_spam(call.ann_msg_list))
  /\ UNCHANGED <<call, detector>>

EstimateProbabilitiesCall ==
  /\ call.op = "estimate_probabilities" /\ ret.kind = "none"
  /\ ret' = estimate_probabilities(call.word_counts, call.n_classes, call.alpha)
  /\ UNCHANGED <<call, detector>>

ClassifyMessageCall ==
  /\ call.op = "classify_message" /\ ret.kind = "none"
  /\ ret' = classify_message(call.message, call.prob_info)
  /\ UNCHANGED <<call, detector>>

FnNext ==
  \/ SplitLineCall
  \/ CountHamAndSpamCall
  \/ CountWordsInHamAndSpamCall
  \/ EstimateProbabilitiesCall
  \/ ClassifyMessageCall

FnSpec == FnInit /\ [][FnNext]_vars

\* ------------------------------------------------------------------ claims

tokens(message) == split_words(clean_msg(message))

\* the detector holds the word counts and class counts that fit stored
HasCounts == _word_counts # None /\ n_ham # None /\ n_spam # None

\* what estimate_probabilities gives for the counts the detector holds
EstimateOfState == estimate_probabilities(_word_counts[1], <<n_ham[1], n_spam[1]>>, alpha)

\* every field of the detector is the one fit derives from the corpus c
FittedFrom(c) ==
  LET wc == count_words_in_ham_and_spam(c)
      nc == count_ham_and_spam(c)
      est == estimate_probabilities(wc, nc, alpha)
  IN  /\ n_train_messages = Some(Len(c))
      /\ _word_counts = Some(wc)
      /\ n_ham = Some(nc[1])
      /\ n_spam = Some(nc[2])
      /\ est.kind = "return"
      /\ _prob_info = Some(est.val)

Unfitted ==
  /\ n_train_messages = None
  /\ _word_counts = None
  /\ n_ham = None
  /\ n_spam = None
  /\ _prob_info = None

\* C1: in every state a caller can observe, also after a fit that raised, the
\* word counts, the class counts and the probability model all derive from
\* one training corpus (or the detector was never fitted).
C1_FitIsAtomic == Unfitted \/ \E c \in CorpusInputs : FittedFrom(c)

SomePositive ==
  call.n_classes[1] > 0 \/ call.n_classes[2] > 0 \/ RGt(call.alpha, Zero)

\* C4 as stated: estimate_probabilities returns whenever one of n_ham, n_spam,
\* alpha is positive.
C4_FailsOnlyOnZeroTotal ==
  (call.op = "estimate_probabilities" /\ ret.kind # "none" /\ SomePositive)
    => ret.kind = "return"

\* C4 amended: estimate_probabilities raises exactly when n_ham, n_spam and
\* alpha are all 0, or when alpha is 0, word_counts has a word and n_ham or
\* n_spam is 0; whenever alpha > 0 it returns.
C4_FailsExactlyOnZeroDenominator ==
  (call.op = "estimate_probabilities" /\ ret.kind # "none")
    => /\ ret.kind = "raise" <=>
            \/ ~SomePositive
            \/ /\ call.alpha = Zero
               /\ call.word_counts # {}
               /\ (call.n_classes[1] = 0 \/ call.n_classes[2] = 0)
       /\ ret.kind = "raise" => ret.exc = "ZeroDivisionError"
       /\ RGt(call.alpha, Zero) => ret.kind = "return"

\* C4 witness: alpha = 0, spam messages only and a word: the estimation raised
\* although the total is positive.
C4_Witness ==
  /\ call.op = "estimate_probabilities"
  /\ ret.kind = "raise"
  /\ call.alpha = Zero
  /\ call.n_classes[1] = 0
  /\ call.n_classes[2] > 0
  /\ call.word_counts # {}

\* the words of the message that the training vocabulary holds
KnownWords == tokens(call.message) \cap Keys(_word_counts[1])

\* C5 as stated: predict_word_proba returns, for exactly the words of the
\* message that are in the training vocabulary, the pair (p_word_given_ham,
\* p_word_given_spam) of the ProbabilityModel estimated from the fitted counts.
C5_WordProbaIsModelEntry ==
  (call.op = "predict_word_proba" /\ HasCounts /\ EstimateOfState.kind = "return")
    => /\ ret.kind = "return"
       /\ Keys(ret.val) = KnownWords
       /\ \A e \in ret.val : e[2] = Get(EstimateOfState.val[1], e[1], <<Zero, Zero>>)

\* C5 amended: on a detector holding the word counts of a fit, predict_word_proba
\* returns a mapping whose keys are exactly the words of the message that are in
\* the training vocabulary, and whose value for a word with counts (h, s) is
\* ((h + a) / (h + s + 2a), (s + a) / (h + s + 2a)), a being alpha.
C5_WordProbaIsNormalisedCount ==
  (call.op = "predict_word_proba" /\ HasCounts)
    => /\ ret.kind = "return"
       /\ Keys(ret.val) = KnownWords
       /\ Cardinality(ret.val) = Cardinality(KnownWords)
       /\ \A e \in ret.val :
            LET c == Get(_word_counts[1], e[1], <<0, 0>>)
                tot == RAdd(RInt(c[1] + c[2]), RMul(RInt(2), alpha))
            IN  e[2] = <<RDiv(RAdd(RInt(c[1]), alpha), tot),
                         RDiv(RAdd(RInt(c[2]), alpha), tot)>>

\* C5 witness: with alpha > 0, a message with a known and an unknown word got
\* a mapping for the known word only.
C5_Witness ==
  /\ call.op = "predict_word_proba"
  /\ HasCounts
  /\ RGt(alpha, Zero)
  /\ ret.kind = "return"
  /\ ret.val # {}
  /\ tokens(call.message) \ Keys(_word_counts[1]) # {}

\* the text after the first tab with every tab replaced by one space
BodyWithSpaces(line) ==
  LET t == index_tab(line)
  IN  [i \in 1..(Len(line) - t) |-> IF line[t + i] = "\t" THEN " " ELSE line[t + i]]

\* C6: split_line splits at the first tab and replaces every tab of the body
\* by one space, so the body keeps its length.
C6_BodyTabsBecomeSpaces ==
  (call.op = "split_line" /\ ret.kind # "none" /\ index_tab(call.line) > 0)
    => /\ ret.kind = "return"
       /\ ret.val[1] = SubSeq(call.line, 1, index_tab(call.line) - 1)
       /\ Len(ret.val[2]) = Len(call.line) - index_tab(call.line)
       /\ ret.val[2] = BodyWithSpaces(call.line)

\* C7: predict on one message returns "ham" when the posterior p_ham of the
\* fitted counts for that message is above 1/2, and "spam" otherwise (at
\* exactly 1/2 too).
C7_PredictThreshold ==
  (/\ call.op = "predict"
   /\ call.messages.kind = "str"
   /\ HasCounts
   /\ EstimateOfState.kind = "return"
   /\ classify_message(call.messages.val, EstimateOfState.val).kind = "return")
    => LET p == classify_message(call.messages.val, EstimateOfState.val).val
       IN  ret = Return(IF RGt(p[1], Half) THEN "ham" ELSE "spam")

IsLabelled(am) == am[1] \in {"ham", "spam"}

\* C8: a message labelled neither "ham" nor "spam" adds nothing to the class
\* counts nor to the word counts, and neither function raises.
C8_OtherLabelsIgnored ==
  /\ (call.op = "count_ham_and_spam" /\ ret.kind # "none")
       => /\ ret = Return(count_ham_and_spam(SelectSeq(call.ann_msg_list, IsLabelled)))
          /\ ret.val[1] + ret.val[2] = Len(SelectSeq(call.ann_msg_list, IsLabelled))
  /\ (call.op = "count_words_in_ham_and_spam" /\ ret.kind # "none")
       => /\ ret = Return(count_words_in_ham_and_spam(
                            SelectSeq(call.ann_msg_list, IsLabelled)))
          /\ \A w \in Keys(ret.val) :
               \E i \in 1..Len(call.ann_msg_list) :
                 /\ IsLabelled(call.ann_msg_list[i])
                 /\ w \in tokens(call.ann_msg_list[i][2])

\* C8 witness: the corpus holds a ham message and an "unknown" message with a
\* word of its own, and the word counts were returned.
C8_Witness ==
  /\ call.op = "count_words_in_ham_and_spam"
  /\ ret.kind = "return"
  /\ ret.val # {}
  /\ \E i \in 1..Len(call.ann_msg_list) :
       /\ call.ann_msg_list[i][1] = "unknown"
       /\ tokens(call.ann_msg_list[i][2]) \ Keys(ret.val) # {}

\* the number of messages of the class whose token set holds w
Presence(c, label, w) ==
  Cardinality({i \in 1..Len(c) : c[i][1] = label /\ w \in tokens(c[i][2])})

\* C9: every word of the result of count_words_in_ham_and_spam maps to the
\* number of ham messages and of spam messages whose token set holds it, which
\* are at most n_ham and n_spam.
C9_PresenceCounts ==
  (call.op = "count_words_in_ham_and_spam" /\ ret.kind # "none")
    => /\ ret.kind = "return"
       /\ Keys(ret.val) =
            UNION {tokens(call.ann_msg_list[i][2]) :
                     i \in {j \in 1..Len(call.ann_msg_list) : IsLabelled(call.ann_msg_list[j])}}
       /\ \A e \in ret.val :
            /\ e[2] = <<Presence(call.ann_msg_list, "ham", e[1]),
                        Presence(call.ann_msg_list, "spam", e[1])>>
            /\ e[2][1] <= count_ham_and_spam(call.ann_msg_list)[1]
            /\ e[2][2] <= count_ham_and_spam(call.ann_msg_list)[2]

\* C9 witness: a ham message repeats a word, which no spam message holds, and
\* the word is counted once.
C9_Witness ==
  /\ call.op = "count_words_in_ham_and_spam"
  /\ ret.kind = "return"
  /\ \E i \in 1..Len(call.ann_msg_list) :
       /\ call.ann_msg_list[i] = <<"ham", <<"A", " ", "a">>>>
       /\ <<<<"a">>, <<1, 0>>>> \in ret.val

\* the detector holds the counts of the end-to-end scenario
ScenarioCounts ==
  /\ alpha = One
  /\ HasCounts
  /\ _word_counts[1] = count_words_in_ham_and_spam(zip(ScenarioClasses, ScenarioMessages))
  /\ <<n_ham[1], n_spam[1]>> = <<2, 1>>

\* C10: with alpha = 1, fit on the three scenario messages returns and leaves
\* the class prior (3/5, 2/5); predict_proba("hello") then returns p_ham >
\* p_spam and predict("hello") returns "ham".
C10_ScenarioFitPredict ==
  /\ (/\ call.op = "fit"
      /\ alpha = One
      /\ call.messages = ScenarioMessages
      /\ call.classes = ScenarioClasses)
       => /\ ret.kind = "return"
          /\ _prob_info # None
          /\ _prob_info[1][2] = <<Rat(3, 5), Rat(2, 5)>>
  /\ (/\ call.op = "predict_proba"
      /\ ScenarioCounts
      /\ call.messages = [kind |-> "str", val |-> Hello])
       => /\ ret.kind = "return"
          /\ RGt(ret.val[1], ret.val[2])
  /\ (/\ call.op = "predict"
      /\ ScenarioCounts
      /\ call.messages = [kind |-> "str", val |-> Hello])
       => ret = Return("ham")

====
